---- MODULE Spec2Model ----
(***************************************************************************)
(* Model of the integration agent of autoweave-agents:                     *)
(*   IntegrationAgentModule.createIntegrationAgent  (index.js)             *)
(*   LangChainOrchestrator                          (langchain-orchestrator.js) *)
(*   IntegrationAgent (manifest generation, registry) (integration-agent.js)    *)
(*   MetricsCollector                               (metrics-collector.js) *)
(*                                                                         *)
(* JavaScript runs one callback at a time: the code between two awaits is  *)
(* atomic, runs interleave only at awaits.  Each action below is the code  *)
(* from one await of the coordinator to the next; the collaborator or      *)
(* reasoning-service call an action awaits is folded into the action, its  *)
(* outcome (returns / throws, which response) drawn with \E.               *)
(***************************************************************************)
EXTENDS Integers, Sequences, FiniteSets, TLC

(* ------------------------------ bounds -------------------------------- *)
\* Date.now() differences (durations) and timestamps (ids) are in 0..MaxTime
MaxTime == 2
\* generateKubernetesManifests is called while agentIdCounter < MaxAgents
MaxAgents == 3
\* MetricsCollector methods are called directly while fewer than MaxOps runs were
\* started and fewer than MaxOps were recorded (SpecMetrics)
MaxOps == 3

(* --------------------------- program constants ------------------------ *)
\* performance.min_duration starts at Infinity: any number above every duration
Infinity == 999999
\* addToHistory keeps the last HistoryLimit entries
HistoryLimit == 20
\* buildMessages sends the last HistoryWindow entries
HistoryWindow == 6

\* the concurrent callers of createIntegrationAgent
Runs == {"r1", "r2"}

\* the tools registerDefaultTools registers
DefaultTools ==
    { "parse_openapi_spec", "generate_pydantic_models",
      "generate_kubernetes_manifests", "deploy_via_gitops",
      "analyze_api_complexity" }

\* a name the reasoning service may select that is no case of executeTool
UnknownTool == "unregistered_tool"

\* What one chat.completions.create call can produce:
\*   "throw"   the call rejects (service unreachable, API error)
\*   "invalid" it resolves to a malformed response (no choices[0], unparsable
\*             function_call.arguments, null content): processResponse throws
\*   "text"    message.content, no function_call
\*   a name    message.function_call.name
Responses == {"throw", "invalid", "text"} \cup DefaultTools \cup {UnknownTool}

Collaborators == {"parser", "generator", "manifestGen", "validator", "deployer"}

\* the names registerTool is called with: the default tools and one more
ToolNames == DefaultTools \cup {UnknownTool}
\* tool descriptors (name, description, parameters, handler), by identity
Descriptors == {"default", "custom1", "custom2"}

\* concurrent calls of generateKubernetesManifests (SpecRegistry)
Generations == {"g1", "g2"}

(* ------------------------------ values -------------------------------- *)
\* JavaScript values the coordinator passes around, by what produced them.
\*   none          null / undefined
\*   spec          what parseSpecification returns
\*   models        what generateModels returns
\*   manifests     what generateKubernetesManifests returns (id = its agentId)
\*   deploy        what deployToGitOps returns
\*   tr_*          what executeTool returns for that tool
\*   tr_error      executeTool's {success: false, error, tool, arguments}
Val(k, i) == [kind |-> k, id |-> i]
None == Val("none", 0)

VARIABLES
    runs,                 \* per createIntegrationAgent call: its locals and position
    metrics,              \* MetricsCollector.metrics
    currentIntegrations,  \* MetricsCollector.currentIntegrations
    conversationHistory,  \* LangChainOrchestrator.conversationHistory
    agents,               \* IntegrationAgent.agents: agentId -> record
    agentIdCounter,       \* IntegrationAgent.agentIdCounter
    last,                 \* the collaborator invocation of the last step (observation)
    open,                 \* runs started and not yet recorded (observation)
    tools,                \* LangChainOrchestrator.tools: name -> registered descriptor
    pending,              \* generateKubernetesManifests calls between line 70 and line 104
    issued,               \* the agent ids drawn so far, in order (observation)
    deleted,              \* the agent ids deleteAgent removed (observation)
    reply,                \* outcome of the last direct method call (observation)
    sent,                 \* the messages buildMessages built for the last request
    snapshot,             \* the object the last getMetrics call returned
    recorded,             \* durations recorded since construction / reset, each
                          \* with the number of times it was recorded (observation)
    awareness,            \* the SelfAwarenessAgent singleton and its calls in flight
    diagnosis             \* the last DebuggingAgent.diagnose call and its outcome

vars == << runs, metrics, currentIntegrations, conversationHistory, agents,
           agentIdCounter, last, open, tools, pending, issued, deleted, reply,
           sent, snapshot, recorded, awareness, diagnosis >>

\* what the actions of createIntegrationAgent and of the MetricsCollector leave alone
directVars == << tools, pending, deleted, reply, awareness, diagnosis >>

(* ========================= MetricsCollector =========================== *)
EmptyMap == [x \in {} |-> 0]

Min(a, b) == IF a < b THEN a ELSE b
Max(a, b) == IF a > b THEN a ELSE b

\* the metrics object the constructor and reset() build
InitialMetrics ==
    [ integrations |-> [total |-> 0, success |-> 0, failed |-> 0, in_progress |-> 0],
      performance  |-> [total_duration |-> 0,
                        avg_duration   |-> [num |-> 0, den |-> 1],
                        min_duration   |-> Infinity,
                        max_duration   |-> 0],
      errors       |-> EmptyMap,
      api_calls    |-> EmptyMap ]

\* startIntegration that marks one run in progress instead of counting it
startIntegrationFlag(m) ==
    [m EXCEPT !.integrations.in_progress = 1]

\* startIntegration: in_progress++ (the id is added to currentIntegrations by the action)
startIntegration(m) ==
    [m EXCEPT !.integrations.in_progress = @ + 1]

\* updateDurationMetrics that divides before it adds the new duration
updateDurationMetricsStaleAvg(m, duration) ==
    LET td == m.performance.total_duration + duration IN
    [m EXCEPT !.performance.total_duration = td,
              !.performance.min_duration   = Min(@, duration),
              !.performance.max_duration   = Max(@, duration),
              !.performance.avg_duration   =
                  IF m.integrations.total > 0
                  THEN [num |-> m.performance.total_duration,
                        den |-> m.integrations.total]
                  ELSE @]

\* updateDurationMetrics, called after total was incremented; avg_duration is the
\* quotient total_duration / total, kept as the exact fraction num/den
updateDurationMetrics(m, duration) ==
    LET td == m.performance.total_duration + duration IN
    [m EXCEPT !.performance.total_duration = td,
              !.performance.min_duration   = Min(@, duration),
              !.performance.max_duration   = Max(@, duration),
              !.performance.avg_duration   =
                  IF m.integrations.total > 0
                  THEN [num |-> td, den |-> m.integrations.total]
                  ELSE @]

\* Map.set(key, (Map.get(key) || 0) + 1)
Bump(map, key) ==
    IF key \in DOMAIN map THEN [map EXCEPT ![key] = @ + 1] ELSE map @@ (key :> 1)

\* recordSuccess that writes back counters read before another run's update
recordSuccessOverwrite(m, duration) ==
    updateDurationMetrics(
        [m EXCEPT !.integrations.success     = 1,
                  !.integrations.total       = m.integrations.failed + 1,
                  !.integrations.in_progress = Max(0, @ - 1)],
        duration)

\* recordSuccess that forgets to take the run out of in_progress
recordSuccessNoDecrement(m, duration) ==
    updateDurationMetrics(
        [m EXCEPT !.integrations.success = @ + 1,
                  !.integrations.total   = @ + 1],
        duration)

recordSuccess(m, duration) ==
    updateDurationMetrics(
        [m EXCEPT !.integrations.success     = @ + 1,
                  !.integrations.total       = @ + 1,
                  !.integrations.in_progress = Max(0, @ - 1)],
        duration)

\* recordFailure that counts the failure and leaves the error-type map alone
recordFailureNoErrorEntry(m, duration, errorType) ==
    updateDurationMetrics(
        [m EXCEPT !.integrations.failed      = @ + 1,
                  !.integrations.total       = @ + 1,
                  !.integrations.in_progress = Max(0, @ - 1)],
        duration)

\* recordFailure that counts the failure but not the total
recordFailureNoTotal(m, duration, errorType) ==
    LET m1 == updateDurationMetrics(
                  [m EXCEPT !.integrations.failed      = @ + 1,
                            !.integrations.in_progress = Max(0, @ - 1)],
                  duration)
    IN [m1 EXCEPT !.errors = Bump(@, errorType)]

recordFailure(m, duration, errorType) ==
    LET m1 == updateDurationMetrics(
                  [m EXCEPT !.integrations.failed      = @ + 1,
                            !.integrations.total       = @ + 1,
                            !.integrations.in_progress = Max(0, @ - 1)],
                  duration)
    IN [m1 EXCEPT !.errors = Bump(@, errorType)]

\* recordApiRequest(endpoint, method, statusCode, duration)
recordApiRequest(m, key) == [m EXCEPT !.api_calls = Bump(@, key)]

\* getMetrics() returns {...this.metrics, timestamp, uptime}: a new object whose
\* integrations, performance, errors and api_calls fields are the very objects
\* this.metrics holds.  taken: their values when it returned; seen: the values
\* read through the returned object now; live: this.metrics still holds those
\* objects (reset() replaces this.metrics by new ones).
NoSnapshot == [taken |-> InitialMetrics, seen |-> InitialMetrics, live |-> FALSE,
               returned |-> FALSE]
getMetrics(m) == [taken |-> m, seen |-> m, live |-> TRUE, returned |-> TRUE]

\* what the returned object shows after this.metrics' objects were mutated to m2
Alias(s, m2) == IF s.live THEN [s EXCEPT !.seen = m2] ELSE s

\* reset that zeroes the metrics and forgets to clear the in-flight set
resetKeepsInFlight(m, current) == [metrics |-> InitialMetrics, currentIntegrations |-> current]

\* reset(): this.metrics = {fresh objects}; this.currentIntegrations.clear()
reset(m, current) == [metrics |-> InitialMetrics, currentIntegrations |-> {}]

\* error.constructor.name of what createIntegrationAgent's catch receives, by origin
ErrorTypes == {"Error", "TypeError", "APIError"}
ErrorTypeOf(origin) ==
    CASE origin = "reasoning" -> "APIError"    \* the openai client's rejection
      [] origin = "invalid"   -> "TypeError"   \* response.choices[0] of a malformed response
      [] OTHER                -> "Error"       \* collaborators throw new Error(...)


(* ================= IntegrationAgent: agent identifiers ================ *)
\* an id scheme that hands the current counter value out again
NextAgentIdRepeated(counter) == Max(counter, 1)

\* ++this.agentIdCounter: the new counter value, which is the number in the
\* agentId `integration-agent-${n}`
NextAgentId(counter) == counter + 1

(* ======================= LangChainOrchestrator ======================== *)
\* analyze_api_complexity fetching the specification again through the parser
ToolCollaboratorAnalyzeParses(name) ==
    CASE name = "parse_openapi_spec"            -> "parser"
      [] name = "generate_pydantic_models"      -> "generator"
      [] name = "generate_kubernetes_manifests" -> "manifestGen"
      [] name = "deploy_via_gitops"             -> "deployer"
      [] name = "analyze_api_complexity"        -> "parser"
      [] OTHER                                  -> "none"

\* the collaborator a tool's execute* method calls (analyze_api_complexity only
\* runs the parser's in-memory analysis: no stage collaborator is invoked)
ToolCollaborator(name) ==
    CASE name = "parse_openapi_spec"            -> "parser"
      [] name = "generate_pydantic_models"      -> "generator"
      [] name = "generate_kubernetes_manifests" -> "manifestGen"
      [] name = "deploy_via_gitops"             -> "deployer"
      [] OTHER                                  -> "none"

\* what the tool's execute* method returns when its collaborator returns
ToolSuccessKind(name) ==
    CASE name = "parse_openapi_spec"            -> "tr_parse"
      [] name = "generate_pydantic_models"      -> "tr_models"
      [] name = "generate_kubernetes_manifests" -> "tr_manifests"
      [] name = "deploy_via_gitops"             -> "tr_deploy"
      [] OTHER                                  -> "tr_analyze"

\* executeTool whose default case falls through to the last case instead of throwing
executeToolFallthrough(name, ok, counter) ==
    LET c == ToolCollaborator(name)
        n == IF c = "manifestGen" THEN NextAgentId(counter) ELSE counter
    IN IF ok
       THEN [ result  |-> Val(ToolSuccessKind(name), IF c = "manifestGen" THEN n ELSE 0),
              collab  |-> c, threw |-> FALSE, counter |-> n,
              store   |-> IF c = "manifestGen" THEN n ELSE 0 ]
       ELSE [ result  |-> Val("tr_error", 0),
              collab  |-> c, threw |-> (c # "none"), counter |-> n, store |-> 0 ]

\* executeTool(functionCall, context): the switch on the tool name inside
\* try/catch.  ok: the tool's body ran without throwing.  counter: agentIdCounter.
\* Gives the value returned, the collaborator invoked, whether it threw, the new
\* agentIdCounter and the agent id stored in the registry (0: none).
executeTool(name, ok, counter) ==
    IF name \notin DefaultTools
    THEN \* default: throw new Error(`Unknown tool`), caught below in the same function
         [ result |-> Val("tr_error", 0), collab |-> "none", threw |-> FALSE,
           counter |-> counter, store |-> 0 ]
    ELSE LET c  == ToolCollaborator(name)
             n  == IF c = "manifestGen" THEN NextAgentId(counter) ELSE counter
         IN IF ok
            THEN [ result  |-> Val(ToolSuccessKind(name), IF c = "manifestGen" THEN n ELSE 0),
                   collab  |-> c, threw |-> FALSE, counter |-> n,
                   store   |-> IF c = "manifestGen" THEN n ELSE 0 ]
            ELSE \* catch (error): return {success: false, error, tool, arguments}
                 [ result  |-> Val("tr_error", 0),
                   collab  |-> c, threw |-> (c # "none"), counter |-> n, store |-> 0 ]

NoOrch == [type |-> "none", tool |-> "none", result |-> None]

\* orchestrate(userInput, context) on the response resp: the create call, then
\* processResponse; every exception is logged and rethrown.
orchestrate(resp, ok, counter) ==
    CASE resp = "throw" ->
            [ threw |-> TRUE, origin |-> "reasoning", result |-> NoOrch,
              collab |-> "none", collabThrew |-> FALSE, counter |-> counter, store |-> 0 ]
      [] resp = "invalid" ->
            [ threw |-> TRUE, origin |-> "invalid", result |-> NoOrch,
              collab |-> "none", collabThrew |-> FALSE, counter |-> counter, store |-> 0 ]
      [] resp = "text" ->
            [ threw |-> FALSE, origin |-> "none",
              result |-> [type |-> "reasoning", tool |-> "none", result |-> None],
              collab |-> "none", collabThrew |-> FALSE, counter |-> counter, store |-> 0 ]
      [] OTHER ->
            LET t == executeTool(resp, ok, counter) IN
            [ threw |-> FALSE, origin |-> "none",
              result |-> [type |-> "tool_execution", tool |-> resp, result |-> t.result],
              collab |-> t.collab, collabThrew |-> t.threw,
              counter |-> t.counter, store |-> t.store ]

\* slice(0, n) of a sequence
FirstN(h, n) == IF Len(h) > n THEN SubSeq(h, 1, n) ELSE h

\* slice(-n) of a sequence
LastN(h, n) == IF Len(h) > n THEN SubSeq(h, Len(h) - n + 1, Len(h)) ELSE h

\* formatResultForHistory(result): `Executed ${tool}: ${result.result.message ||
\* 'Success'}` for a tool execution (executeTool's failure record has no message),
\* result.content otherwise
formatResultForHistory(o) ==
    IF o.type = "tool_execution"
    THEN << "Executed", o.tool,
            IF o.result.kind = "tr_error" THEN "Success" ELSE "message" >>
    ELSE << "content" >>

\* addToHistory that keeps one entry fewer than the limit when it truncates
addToHistoryOddCut(h, user, assistant) ==
    LET h2 == h \o << [role |-> "user", content |-> user],
                      [role |-> "assistant", content |-> assistant] >>
    IN IF Len(h2) > HistoryLimit THEN LastN(h2, HistoryLimit - 1) ELSE h2

\* addToHistory that never drops an entry
addToHistoryUnbounded(h, user, assistant) ==
    h \o << [role |-> "user", content |-> user],
            [role |-> "assistant", content |-> assistant] >>

\* addToHistory: push the user entry and the assistant summary, keep the last 20
addToHistory(h, user, assistant) ==
    LET h2 == h \o << [role |-> "user", content |-> user],
                      [role |-> "assistant", content |-> assistant] >>
    IN IF Len(h2) > HistoryLimit THEN LastN(h2, HistoryLimit) ELSE h2

\* buildMessages that sends the whole history
buildMessagesWholeHistory(h, userInput) ==
    << [role |-> "system", content |-> << "systemPrompt" >>] >>
    \o h
    \o << [role |-> "user", content |-> userInput] >>

\* buildMessages(userInput, context): the system prompt, the last 6 history
\* entries, the new user message
buildMessages(h, userInput) ==
    << [role |-> "system", content |-> << "systemPrompt" >>] >>
    \o LastN(h, HistoryWindow)
    \o << [role |-> "user", content |-> userInput] >>

(* ================= IntegrationAgent: the agent registry =============== *)
\* a store that keeps no record
StoreAgentNowhere(reg, id) == reg

\* a store that files the record under the id after the one drawn
StoreAgentNextKey(reg, id) ==
    IF id = 0 THEN reg
    ELSE [k \in (DOMAIN reg) \cup {id + 1} |->
             IF k = id + 1 THEN [agentId |-> id, status |-> "generated"] ELSE reg[k]]

\* this.agents.set(agentId, {...result, status: 'generated', createdAt})
StoreAgent(reg, id) ==
    IF id = 0 THEN reg
    ELSE [k \in (DOMAIN reg) \cup {id} |->
             IF k = id THEN [agentId |-> id, status |-> "generated"] ELSE reg[k]]


\* deleteAgent that answers a missing id with success
deleteAgentLenient(reg, id) ==
    [threw |-> FALSE, agents |-> [k \in (DOMAIN reg) \ {id} |-> reg[k]]]

\* deleteAgent(agentId): throws `Agent ${agentId} not found` when the id has no
\* record, else this.agents.delete(agentId)
deleteAgent(reg, id) ==
    IF id \notin DOMAIN reg
    THEN [threw |-> TRUE,  agents |-> reg]
    ELSE [threw |-> FALSE, agents |-> [k \in (DOMAIN reg) \ {id} |-> reg[k]]]

\* listAgents(): Array.from(this.agents.values())
listAgents(reg) == {reg[k] : k \in DOMAIN reg}

(* ========================= DebuggingAgent ============================= *)
\* this.knownPatterns: pattern -> severity
KnownPatterns ==
    [ OOMKilled |-> "high", CrashLoopBackOff |-> "high", ImagePullBackOff |-> "medium",
      connection_refused |-> "medium", timeout |-> "medium" ]

\* telemetry as collectTelemetryData returns it: metrics.errorRate in percent, the
\* error logs by the text they carry, and how many further logs there are
ErrorRates == {0, 6, 20, 60}
LogSamples == { << >>, << "OOMKilled" >>, << "timeout" >>, << "healthy" >>,
                << "timeout", "OOMKilled" >> }
LogVolumes == {0, 51}
Telemetry ==
    [ errorRate : ErrorRates, logs : LogSamples, extraLogs : LogVolumes ]

\* detectKnownPatterns: one issue per log message that carries a known pattern,
\* then high-error-rate when errorRate > 0.1
RECURSIVE LogIssues(_)
LogIssues(logs) ==
    IF logs = << >> THEN << >>
    ELSE LET rest == LogIssues(Tail(logs)) IN
         IF Head(logs) \in DOMAIN KnownPatterns
         THEN << [pattern |-> Head(logs), severity |-> KnownPatterns[Head(logs)]] >> \o rest
         ELSE rest

detectKnownPatterns(t) ==
    LogIssues(t.logs) \o
    (IF t.errorRate > 10
     THEN << [pattern |-> "high-error-rate", severity |-> "high"] >>
     ELSE << >>)

assessImpact(t) ==
    IF t.errorRate > 50 THEN "critical"
    ELSE IF t.errorRate > 10 THEN "high"
    ELSE IF t.errorRate > 5 THEN "medium"
    ELSE "low"

findCorrelations(t) ==
    IF t.errorRate > 10 /\ Len(t.logs) + t.extraLogs > 50
    THEN << "High error rate correlates with increased log volume" >>
    ELSE << >>

\* performBasicAnalysis(context); rootCause is the text built from the issues'
\* patterns, kept as the sequence of patterns it joins (empty: the
\* `No known patterns detected` text)
performBasicAnalysis(context) ==
    [ source       |-> "basic",
      rootCause    |-> [i \in 1..Len(context.knownIssues) |->
                           context.knownIssues[i].pattern],
      impact       |-> assessImpact(context.telemetryData),
      correlations |-> findCorrelations(context.telemetryData),
      likelihood   |-> IF \E i \in 1..Len(context.knownIssues) :
                              context.knownIssues[i].severity = "high"
                       THEN "high" ELSE "medium" ]

\* what an llm.analyze call can produce: it rejects (LLMRejects), it resolves to
\* no value (NoAnalysis), or it resolves to an analysis
LLMAnalyses ==
    { [ source |-> "llm", rootCause |-> << "memory" >>, impact |-> i,
        correlations |-> << >>, likelihood |-> l ] :
      i \in {"critical", "low"}, l \in {"high", "low"} }
NoAnalysis == [ source |-> "none", rootCause |-> << >>, impact |-> "none",
                correlations |-> << >>, likelihood |-> "none" ]
LLMRejects == [NoAnalysis EXCEPT !.source = "throw"]
LLMAnswers == {LLMRejects, NoAnalysis} \cup LLMAnalyses

\* performDeepAnalysis whose catch rethrows the language model's error
performDeepAnalysisRethrows(llm, answer, context) ==
    IF llm = "none" THEN [threw |-> FALSE, value |-> performBasicAnalysis(context)]
    ELSE IF answer = LLMRejects THEN [threw |-> TRUE, value |-> NoAnalysis]
    ELSE [threw |-> FALSE, value |-> answer]

\* performDeepAnalysis(context) of an agent built with llm ("none": no llm given)
\* when llm.analyze produces answer
performDeepAnalysis(llm, answer, context) ==
    IF llm = "none" THEN [threw |-> FALSE, value |-> performBasicAnalysis(context)]
    ELSE IF answer = LLMRejects
         THEN \* catch (error): return this.performBasicAnalysis(context)
              [threw |-> FALSE, value |-> performBasicAnalysis(context)]
    ELSE \* return analysis
         [threw |-> FALSE, value |-> answer]

\* generateRecommendations(diagnosis): the actions recommended; reading
\* diagnosis.rootCause throws when diagnosis is undefined
generateRecommendations(d) ==
    IF d = NoAnalysis THEN [threw |-> TRUE, value |-> {}]
    ELSE [ threw |-> FALSE,
           value |-> {"Enable OpenTelemetry instrumentation", "Implement health checks"}
                     \cup (IF \E i \in 1..Len(d.rootCause) : d.rootCause[i] = "memory"
                           THEN {"Increase memory limits"} ELSE {})
                     \cup (IF \E i \in 1..Len(d.rootCause) : d.rootCause[i] = "timeout"
                           THEN {"Increase timeout values"} ELSE {}) ]

determineSeverity(d) ==
    IF d.likelihood = "high" \/ d.impact = "critical" THEN "critical"
    ELSE IF d.impact = "high" THEN "warning"
    ELSE "info"

\* diagnose(identifier, options): what it returns, or that it threw
NoDiagnosis ==
    [ called |-> FALSE, llm |-> "none", answer |-> NoAnalysis,
      context |-> [ telemetryData |-> [errorRate |-> 0, logs |-> << >>, extraLogs |-> 0],
                    knownIssues |-> << >> ],
      analysisThrew |-> FALSE, analysis |-> NoAnalysis,
      threw |-> FALSE, status |-> "none", recommendations |-> {} ]

diagnose(llm, answer, t) ==
    LET context == [telemetryData |-> t, knownIssues |-> detectKnownPatterns(t)]
        deep    == performDeepAnalysis(llm, answer, context)
        recs    == generateRecommendations(deep.value)
        failed  == deep.threw \/ recs.threw
    IN  [ called |-> TRUE, llm |-> llm, answer |-> answer, context |-> context,
          analysisThrew |-> deep.threw, analysis |-> deep.value,
          threw |-> failed,
          status |-> IF failed THEN "none" ELSE determineSeverity(deep.value),
          recommendations |-> IF failed THEN {} ELSE recs.value ]

(* ========================= SelfAwarenessAgent ========================= *)
\* before `new SelfAwarenessAgent()` ran.  init / force: where the initialize call
\* the constructor starts and a forceSynchronization call stand; lastScan: how the
\* most recent performFullSystemScan ended; monitoring: the setInterval timer runs
NotConstructed ==
    [ init |-> "none", force |-> "idle", initialized |-> FALSE, autoSync |-> FALSE,
      lastScan |-> "none", osEnvironment |-> "null", dbSync |-> "unknown",
      monitoring |-> FALSE ]

\* performFullSystemScan(): the flag it leaves, by whether its try block threw
performFullSystemScan(a, ok) ==
    [a EXCEPT !.initialized = ok, !.lastScan = IF ok THEN "ok" ELSE "failed"]

\* checkDatabaseSync(): the script's verdict, or dbSync left alone when the script
\* failed or threw
DbOutcomes == {"synchronized", "out-of-sync", "failed"}
checkDatabaseSync(a, outcome) ==
    IF outcome = "failed" THEN a ELSE [a EXCEPT !.dbSync = outcome]

(* ============ IntegrationAgentModule.createIntegrationAgent =========== *)
\* One call of createIntegrationAgent: its position (pc), its options, its
\* locals, and what it handed to its caller.
\*   pc: idle -> plan -> parse_o -> parse_f -> models_o -> models_f ->
\*       manifests_o -> manifests_f -> validate -> [deploy_o -> deploy_f ->] done
\*       and failed from any of them.  <stage>_o awaits orchestrate(...),
\*       <stage>_f evaluates  result || await <collaborator>  after it.
\* What createIntegrationAgent hands to its caller: the result object it returns
\* (kind "result") or the error it rethrows (kind "error": the collaborator's or
\* reasoning service's Error object as caught, which carries a message only: no
\* stage and no stage results are attached to it).
NoOutcome ==
    [ kind |-> "none", error |-> "none", stage |-> "none",
      openAPISpec |-> None, pydanticModels |-> None,
      kubernetesManifests |-> None, deploymentResult |-> None ]

IdleRun ==
    [ pc |-> "idle", url |-> FALSE, git_repo |-> FALSE,
      started |-> FALSE, orch |-> NoOrch,
      openAPISpec |-> None, pydanticModels |-> None,
      kubernetesManifests |-> None, deploymentResult |-> None,
      thrown |-> "none", failedAt |-> "none",
      invoked |-> {},          \* collaborators this run has invoked (observation)
      validation |-> "none",   \* what validateManifests' checks reported (observation)
      stored |-> {},           \* agent ids this run's calls stored (observation)
      outcome |-> NoOutcome ]  \* what the call handed to its caller

NoCall == [run |-> "none", stage |-> "none", via |-> "none", collab |-> "none", threw |-> FALSE]
Invoked(r, stage, via, collab, threw) ==
    [run |-> r, stage |-> stage, via |-> via, collab |-> collab, threw |-> threw]

\* the run has invoked collaborator c (c = "none": it has not)
Mark(run, c) ==
    IF c = "none" THEN run ELSE [run EXCEPT !.invoked = @ \cup {c}]

\* outcome of a method called directly: what it was called with, whether it threw,
\* and for listAgents the agent ids of the records it returned
NoReply == [op |-> "none", arg |-> 0, threw |-> FALSE, listed |-> {}]
Reply(op, arg, threw, listed) ==
    [op |-> op, arg |-> arg, threw |-> threw, listed |-> listed]

\* the ids drawn so far, after a step that drew id n (drew) or none
Issue(seq, drew, n) == IF drew THEN Append(seq, n) ELSE seq

Init ==
    /\ runs = [r \in Runs |-> IdleRun]
    /\ metrics = InitialMetrics
    /\ currentIntegrations = {}
    /\ conversationHistory = << >>
    /\ agents = EmptyMap
    /\ agentIdCounter = 0
    /\ last = NoCall
    /\ open = 0
    /\ tools = [n \in DefaultTools |-> "default"]
    /\ pending = [g \in Generations |-> 0]
    /\ issued = << >>
    /\ deleted = {}
    /\ reply = NoReply
    /\ sent = << >>
    /\ snapshot = NoSnapshot
    /\ recorded = EmptyMap
    /\ awareness = NotConstructed
    /\ diagnosis = NoDiagnosis

StageOf(pc) ==
    CASE pc = "plan" -> "plan"
      [] pc \in {"parse_o", "parse_f"} -> "parse"
      [] pc \in {"models_o", "models_f"} -> "models"
      [] pc \in {"manifests_o", "manifests_f"} -> "manifests"
      [] pc = "validate" -> "validate"
      [] pc \in {"deploy_o", "deploy_f"} -> "deploy"
      [] OTHER -> "none"

\* where the coordinator is after an orchestrate call returned
AfterOrchestrate(pc) ==
    CASE pc = "plan"        -> "parse_o"
      [] pc = "parse_o"     -> "parse_f"
      [] pc = "models_o"    -> "models_f"
      [] pc = "manifests_o" -> "manifests_f"
      [] pc = "deploy_o"    -> "deploy_f"

\* the durations recorded so far, after a step that took the metrics from m to m2
\* by recording duration d (a step that recorded nothing leaves them)
Recorded(seq, m, m2, d) ==
    IF m2.integrations.success + m2.integrations.failed
         # m.integrations.success + m.integrations.failed
    THEN Bump(seq, d) ELSE seq

\* a catch block that rethrows without recording
CatchMetricsSilent(m, duration, origin) == m

\* the catch block: recordFailure(duration, error), then throw error
CatchMetrics(m, duration, origin) == recordFailure(m, duration, ErrorTypeOf(origin))

\* throw error: the caller receives the error object that was caught
Caught(run, origin) ==
    [run EXCEPT !.pc = "failed", !.thrown = origin, !.failedAt = StageOf(run.pc),
                !.orch = NoOrch,
                !.outcome = [NoOutcome EXCEPT !.kind = "error", !.error = origin]]

\* the end of the try block: recordSuccess(duration), build and return the result
Returned(run) ==
    [run EXCEPT !.pc = "done", !.orch = NoOrch,
                !.outcome = [ kind |-> "result", error |-> "none", stage |-> "none",
                              openAPISpec         |-> run.openAPISpec,
                              pydanticModels      |-> run.pydanticModels,
                              kubernetesManifests |-> run.kubernetesManifests,
                              deploymentResult    |-> run.deploymentResult ]]

\* a call of this run stored a record under agent id (id = 0: it stored none)
Stored(run, id) ==
    IF id = 0 THEN run ELSE [run EXCEPT !.stored = @ \cup {id}]

OrchestratePcs == {"plan", "parse_o", "models_o", "manifests_o", "deploy_o"}
FallbackPcs    == {"parse_f", "models_f", "manifests_f", "deploy_f"}

\* createIntegrationAgent(options) up to its first await: the parameter check,
\* startIntegration, and planIntegration's request
\* in: the sets the inputs and the outcomes of awaited calls are drawn from
Call(r, in) ==
    /\ runs[r].pc = "idle"
    /\ \E url \in in.urls, git \in in.gits, t \in in.times :
        /\ IF ~url
           THEN \* throw new Error('Missing required parameter: openapi_url')
                /\ runs' = [runs EXCEPT ![r] =
                              [@ EXCEPT !.pc = "failed", !.thrown = "validation",
                                        !.git_repo = git,
                                        !.outcome = [NoOutcome EXCEPT
                                                        !.kind = "error",
                                                        !.error = "validation"]]]
                /\ UNCHANGED << metrics, currentIntegrations, open, sent >>
           ELSE /\ runs' = [runs EXCEPT ![r] =
                              [@ EXCEPT !.pc = "plan", !.url = TRUE, !.git_repo = git,
                                        !.started = TRUE]]
                /\ metrics' = startIntegration(metrics)
                /\ currentIntegrations' = currentIntegrations \cup {t}
                /\ open' = open + 1
                /\ sent' = buildMessages(conversationHistory, <<r, "plan">>)
    /\ last' = NoCall
    /\ snapshot' = Alias(snapshot, metrics')
    /\ UNCHANGED << conversationHistory, agents, agentIdCounter, issued, directVars,
                    recorded >>

\* await this.orchestrator.orchestrate(...) (for pc = plan: planIntegration, which
\* is one orchestrate call) resolving or rejecting; when planIntegration returns,
\* the coordinator goes straight on to the parse stage's orchestrate call, which
\* builds its request before its first await
Orchestrate(r, in) ==
    /\ runs[r].pc \in OrchestratePcs
    /\ \E resp \in in.responses, ok \in in.oks, d \in in.times :
        LET o     == orchestrate(resp, ok, agentIdCounter)
            stage == StageOf(runs[r].pc)
        IN  /\ o.counter <= MaxAgents
            /\ agentIdCounter' = o.counter
            /\ issued' = Issue(issued, o.collab = "manifestGen", o.counter)
            /\ agents' = StoreAgent(agents, o.store)
            /\ last' = Invoked(r, stage, IF o.collab = "none" THEN "none" ELSE "tool",
                               o.collab, o.collabThrew)
            /\ IF o.threw
               THEN /\ runs' = [runs EXCEPT ![r] = Caught(@, o.origin)]
                    /\ metrics' = CatchMetrics(metrics, d, o.origin)
                    /\ recorded' = Recorded(recorded, metrics, metrics', d)
                    /\ open' = Max(0, open - 1)
                    /\ UNCHANGED << conversationHistory, sent >>
               ELSE /\ runs' = [runs EXCEPT ![r] =
                                  [Stored(Mark(@, o.collab), o.store) EXCEPT
                                      !.pc = AfterOrchestrate(runs[r].pc),
                                      !.orch = o.result]]
                    /\ conversationHistory' =
                          addToHistory(conversationHistory, <<r, stage>>, <<r, stage>>)
                    /\ sent' = IF runs[r].pc = "plan"
                               THEN buildMessages(conversationHistory', <<r, "parse">>)
                               ELSE sent
                    /\ UNCHANGED << metrics, open, recorded >>
    /\ snapshot' = Alias(snapshot, metrics')
    /\ UNCHANGED << currentIntegrations, directVars >>


\* the collaborator the coordinator calls itself at a stage
StageCollaborator(stage) ==
    CASE stage = "parse"     -> "parser"
      [] stage = "models"    -> "generator"
      [] stage = "manifests" -> "manifestGen"
      [] stage = "validate"  -> "validator"
      [] stage = "deploy"    -> "deployer"

\* what that collaborator returns (id: the agent id generateKubernetesManifests drew)
DirectValue(stage, id) ==
    CASE stage = "parse"     -> Val("spec", 0)
      [] stage = "models"    -> Val("models", 0)
      [] stage = "manifests" -> Val("manifests", id)
      [] stage = "deploy"    -> Val("deploy", 0)

\* pydanticResult || ... and gitOpsResult || ... : the orchestration result object
\* itself, always truthy, in place of its result field
UsesOrchestrationWhole(stage, o) ==
    CASE stage = "parse"     -> o.result.kind = "tr_parse"
      [] stage = "models"    -> TRUE
      [] stage = "manifests" -> o.result.kind = "tr_manifests"
      [] stage = "deploy"    -> TRUE

\* the left operand of the stage's  ... || await <collaborator>(...)  is truthy:
\*   openAPIResult.result?.spec, pydanticResult.result,
\*   manifestsResult.result?.manifests, gitOpsResult.result
UsesOrchestration(stage, o) ==
    CASE stage = "parse"     -> o.result.kind = "tr_parse"
      [] stage = "models"    -> o.result.kind # "none"
      [] stage = "manifests" -> o.result.kind = "tr_manifests"
      [] stage = "deploy"    -> o.result.kind # "none"

\* the value of that left operand
OrchestrationValue(stage, o) ==
    CASE stage = "parse"     -> Val("spec", 0)
      [] stage = "models"    -> o.result
      [] stage = "manifests" -> Val("manifests", o.result.id)
      [] stage = "deploy"    -> o.result

\* the local a stage assigns
SetOutput(run, stage, v) ==
    CASE stage = "parse"     -> [run EXCEPT !.openAPISpec = v]
      [] stage = "models"    -> [run EXCEPT !.pydanticModels = v]
      [] stage = "manifests" -> [run EXCEPT !.kubernetesManifests = v]
      [] stage = "deploy"    -> [run EXCEPT !.deploymentResult = v]

\* where the coordinator goes after a stage's value is assigned
AfterStage(run) ==
    CASE run.pc = "parse_f"     -> "models_o"
      [] run.pc = "models_f"    -> "manifests_o"
      [] run.pc = "manifests_f" -> "validate"
      [] run.pc = "validate"    -> IF run.git_repo THEN "deploy_o" ELSE "done"
      [] run.pc = "deploy_f"    -> "done"

\* the run goes on to nxt; reaching the end of the try block records the success
\* (duration = Date.now() - startTime is some d in 0..MaxTime)
Advance(r, run, nxt, d) ==
    IF nxt = "done"
    THEN /\ runs' = [runs EXCEPT ![r] = Returned(run)]
         /\ metrics' = recordSuccess(metrics, d)
         /\ recorded' = Recorded(recorded, metrics, metrics', d)
         /\ open' = Max(0, open - 1)
         /\ UNCHANGED sent
    ELSE /\ runs' = [runs EXCEPT ![r] = [run EXCEPT !.pc = nxt, !.orch = NoOrch]]
         /\ sent' = IF nxt \in OrchestratePcs
                    THEN buildMessages(conversationHistory, <<r, StageOf(nxt)>>)
                    ELSE sent
         /\ UNCHANGED << metrics, open, recorded >>

\* a collaborator's error leaving createIntegrationAgent without passing the catch
AbortUnrecorded(r, run, origin, d) ==
    /\ runs' = [runs EXCEPT ![r] = Caught(run, origin)]
    /\ UNCHANGED << metrics, open, recorded, sent >>

\* a collaborator the coordinator awaited threw: the catch block
Abort(r, run, origin, d) ==
    /\ runs' = [runs EXCEPT ![r] = Caught(run, origin)]
    /\ metrics' = CatchMetrics(metrics, d, origin)
    /\ recorded' = Recorded(recorded, metrics, metrics', d)
    /\ open' = Max(0, open - 1)
    /\ UNCHANGED sent

\* const x = <orchestration value> || await <collaborator>(...)
Fallback(r, stage, in) ==
    \E ok \in in.oks, d \in in.times :
        LET run == runs[r]
            c   == StageCollaborator(stage)
        IN  IF UsesOrchestration(stage, run.orch)
            THEN /\ Advance(r, SetOutput(run, stage, OrchestrationValue(stage, run.orch)),
                            AfterStage(run), d)
                 /\ last' = Invoked(r, stage, "none", "none", FALSE)
                 /\ UNCHANGED << agents, agentIdCounter, issued >>
            ELSE LET n == IF c = "manifestGen" THEN NextAgentId(agentIdCounter)
                                               ELSE agentIdCounter
                 IN  /\ n <= MaxAgents
                     /\ agentIdCounter' = n
                     /\ issued' = Issue(issued, c = "manifestGen", n)
                     /\ last' = Invoked(r, stage, "direct", c, ~ok)
                     /\ IF ok
                        THEN /\ agents' = StoreAgent(agents, IF c = "manifestGen" THEN n ELSE 0)
                             /\ Advance(r, SetOutput(
                                               Stored(Mark(run, c),
                                                      IF c = "manifestGen" THEN n ELSE 0),
                                               stage, DirectValue(stage, n)),
                                        AfterStage(run), d)
                        ELSE /\ UNCHANGED agents
                             /\ Abort(r, Mark(run, c), c, d)

FallbackParse(r, in) ==
    /\ runs[r].pc = "parse_f"
    /\ Fallback(r, "parse", in)
    /\ snapshot' = Alias(snapshot, metrics')
    /\ UNCHANGED << currentIntegrations, conversationHistory, directVars >>

FallbackModels(r, in) ==
    /\ runs[r].pc = "models_f"
    /\ Fallback(r, "models", in)
    /\ snapshot' = Alias(snapshot, metrics')
    /\ UNCHANGED << currentIntegrations, conversationHistory, directVars >>

FallbackManifests(r, in) ==
    /\ runs[r].pc = "manifests_f"
    /\ Fallback(r, "manifests", in)
    /\ snapshot' = Alias(snapshot, metrics')
    /\ UNCHANGED << currentIntegrations, conversationHistory, directVars >>

FallbackDeploy(r, in) ==
    /\ runs[r].pc = "deploy_f"
    /\ Fallback(r, "deploy", in)
    /\ snapshot' = Alias(snapshot, metrics')
    /\ UNCHANGED << currentIntegrations, conversationHistory, directVars >>

\* what the file system does to validateManifests: nothing, mkdir / writeFile
\* rejects (before the checks), or the cleanup rm rejects (after them)
FsOutcomes == {"ok", "write", "cleanup"}

\* validateManifests that rejects when a check did not pass
validateManifestsStrict(fs, kubeconform, conftest, kubectl) ==
    IF fs = "write"
    THEN [threw |-> TRUE, origin |-> "validator", checks |-> "none"]
    ELSE LET passed == kubeconform /\ conftest /\ kubectl IN
         [ threw  |-> (fs = "cleanup" \/ ~passed),
           origin |-> IF ~passed THEN "check"
                      ELSE IF fs = "cleanup" THEN "validator" ELSE "none",
           checks |-> IF passed THEN "passed" ELSE "failed" ]

\* validateManifests(manifests): each of the three checks runs in its own
\* try/catch, which turns a failing command into passed = false and a warning;
\* only the file system calls around them reach the outer catch, which rethrows.
\* kubeconform, conftest, kubectl: the command exited with code 0.
validateManifests(fs, kubeconform, conftest, kubectl) ==
    IF fs = "write"
    THEN [threw |-> TRUE, origin |-> "validator", checks |-> "none"]
    ELSE [ threw  |-> (fs = "cleanup"),
           origin |-> IF fs = "cleanup" THEN "validator" ELSE "none",
           checks |-> IF kubeconform /\ conftest /\ kubectl THEN "passed" ELSE "failed" ]

\* await this.integrationAgent.validateManifests(kubernetesManifests): it returns
\* the three checks' results (ignored by the coordinator) or rethrows a file
\* system error; without git_repo the run then returns
Validate(r, in) ==
    /\ runs[r].pc = "validate"
    /\ \E fs \in in.fs, kubeconform \in in.checks, conftest \in in.checks,
          kubectl \in in.checks, d \in in.times :
        LET v   == validateManifests(fs, kubeconform, conftest, kubectl)
            run == [Mark(runs[r], "validator") EXCEPT !.validation = v.checks]
        IN  /\ last' = Invoked(r, "validate", "direct", "validator", v.threw)
            /\ IF v.threw THEN Abort(r, run, v.origin, d)
                          ELSE Advance(r, run, AfterStage(runs[r]), d)
    /\ snapshot' = Alias(snapshot, metrics')
    /\ UNCHANGED << currentIntegrations, conversationHistory, agents, agentIdCounter,
                    issued, directVars >>

\* the callers of createIntegrationAgent in Spec
Callers == {"r1"}

\* every input and every outcome of the awaited calls
AllInputs ==
    [ urls |-> BOOLEAN, gits |-> BOOLEAN, times |-> 0..MaxTime,
      responses |-> Responses, oks |-> BOOLEAN,
      fs |-> FsOutcomes, checks |-> BOOLEAN ]

Next ==
    \/ \E r \in Callers : Call(r, AllInputs)
    \/ \E r \in Callers : Orchestrate(r, AllInputs)
    \/ \E r \in Callers : FallbackParse(r, AllInputs)
    \/ \E r \in Callers : FallbackModels(r, AllInputs)
    \/ \E r \in Callers : FallbackManifests(r, AllInputs)
    \/ \E r \in Callers : Validate(r, AllInputs)
    \/ \E r \in Callers : FallbackDeploy(r, AllInputs)

\* one call of createIntegrationAgent, with every response of the reasoning
\* service and every outcome of the collaborators
Spec == Init /\ [][Next]_vars

(* ============ a reasoning service that stalls (SpecStall) ============= *)
\* orchestrate awaits openai.chat.completions.create with no timer, race or abort
\* signal of its own: when the service accepts the request and never answers, the
\* awaited promise stays pending and nothing after the await runs.
Stall(r) ==
    /\ runs[r].pc \in OrchestratePcs
    /\ runs' = [runs EXCEPT ![r].pc = "stalled"]
    /\ UNCHANGED << metrics, currentIntegrations, conversationHistory, agents,
                    agentIdCounter, last, open, issued, sent, snapshot, recorded,
                    directVars >>

NextStall ==
    \/ Next
    \/ \E r \in Callers : Stall(r)

\* the event loop resumes every continuation whose awaited promise has settled;
\* whether the service stalls is up to the service
SpecStall == Init /\ [][NextStall]_vars /\ WF_vars(Next)

(* ============ concurrent createIntegrationAgent calls (SpecConc) ====== *)
\* Several calls on one IntegrationAgentModule, interleaved at their awaits.  The
\* reasoning service answers with guidance or fails; collaborators succeed or
\* throw; no git_repo, so the runs end after the validate step.
ConcInputs ==
    [ urls |-> BOOLEAN, gits |-> {FALSE}, times |-> {1},
      responses |-> {"text", "throw"}, oks |-> BOOLEAN,
      fs |-> {"ok"}, checks |-> {TRUE} ]

NextConc ==
    \/ \E r \in Runs : Call(r, ConcInputs)
    \/ \E r \in Runs : Orchestrate(r, ConcInputs)
    \/ \E r \in Runs : FallbackParse(r, ConcInputs)
    \/ \E r \in Runs : FallbackModels(r, ConcInputs)
    \/ \E r \in Runs : FallbackManifests(r, ConcInputs)
    \/ \E r \in Runs : Validate(r, ConcInputs)

SpecConc == Init /\ [][NextConc]_vars

(* ============ MetricsCollector called directly (SpecMetrics) ========== *)
\* startIntegration(integrationId, metadata)
StartIntegration(t) ==
    /\ open < MaxOps
    /\ metrics' = startIntegration(metrics)
    /\ currentIntegrations' = currentIntegrations \cup {t}
    /\ open' = open + 1
    /\ snapshot' = Alias(snapshot, metrics')
    /\ reply' = Reply("startIntegration", 0, FALSE, {})
    /\ UNCHANGED << awareness, diagnosis, runs, conversationHistory, agents, agentIdCounter, last,
                    issued, tools, pending, deleted, sent, recorded >>

\* recordSuccess(duration)
RecordSuccess(d) ==
    /\ metrics.integrations.total < MaxOps
    /\ metrics' = recordSuccess(metrics, d)
    /\ recorded' = Recorded(recorded, metrics, metrics', d)
    /\ open' = Max(0, open - 1)
    /\ snapshot' = Alias(snapshot, metrics')
    /\ reply' = Reply("recordSuccess", 0, FALSE, {})
    /\ UNCHANGED << awareness, diagnosis, runs, currentIntegrations, conversationHistory, agents,
                    agentIdCounter, last, issued, tools, pending, deleted, sent >>

\* recordFailure(duration, error)
RecordFailure(d, e) ==
    /\ metrics.integrations.total < MaxOps
    /\ metrics' = recordFailure(metrics, d, e)
    /\ recorded' = Recorded(recorded, metrics, metrics', d)
    /\ open' = Max(0, open - 1)
    /\ snapshot' = Alias(snapshot, metrics')
    /\ reply' = Reply("recordFailure", 0, FALSE, {})
    /\ UNCHANGED << awareness, diagnosis, runs, currentIntegrations, conversationHistory, agents,
                    agentIdCounter, last, issued, tools, pending, deleted, sent >>

\* reset()
Reset ==
    /\ metrics' = reset(metrics, currentIntegrations).metrics
    /\ currentIntegrations' = reset(metrics, currentIntegrations).currentIntegrations
    /\ snapshot' = [snapshot EXCEPT !.live = FALSE]
    /\ recorded' = EmptyMap
    /\ reply' = Reply("reset", 0, FALSE, {})
    /\ UNCHANGED << awareness, diagnosis, runs, conversationHistory, agents, agentIdCounter, last, open,
                    issued, tools, pending, deleted, sent >>

\* the `${method} ${endpoint}` keys recordApiRequest is called with
ApiKeys == {"GET /items"}

\* recordApiRequest(endpoint, method, statusCode, duration), while the key was
\* counted fewer than MaxOps times
RecordApiRequest(key) ==
    /\ key \in DOMAIN metrics.api_calls => metrics.api_calls[key] < MaxOps
    /\ metrics' = recordApiRequest(metrics, key)
    /\ snapshot' = Alias(snapshot, metrics')
    /\ reply' = Reply("recordApiRequest", 0, FALSE, {})
    /\ UNCHANGED << awareness, diagnosis, runs, currentIntegrations, conversationHistory, agents,
                    agentIdCounter, last, open, issued, tools, pending, deleted, sent, recorded >>

\* getMetrics()
GetMetrics ==
    /\ snapshot' = getMetrics(metrics)
    /\ reply' = Reply("getMetrics", 0, FALSE, {})
    /\ UNCHANGED << awareness, diagnosis, runs, metrics, currentIntegrations, conversationHistory, agents,
                    agentIdCounter, last, open, issued, tools, pending, deleted, sent, recorded >>

NextMetrics ==
    \/ \E t \in 0..MaxTime : StartIntegration(t)
    \/ \E d \in 0..MaxTime : RecordSuccess(d)
    \/ \E d \in 0..MaxTime, e \in ErrorTypes : RecordFailure(d, e)
    \/ \E k \in ApiKeys : RecordApiRequest(k)
    \/ Reset

\* any sequence of calls of the MetricsCollector's methods
SpecMetrics == Init /\ [][NextMetrics]_vars

(* ====== MetricsCollector snapshots and later updates (SpecSnapshot) ==== *)
\* the durations, ids and error types of the calls that follow a getMetrics call
SnapshotTimes == {1}
SnapshotErrors == {"Error"}

NextSnapshot ==
    \/ GetMetrics
    \/ \E t \in SnapshotTimes : StartIntegration(t)
    \/ \E d \in SnapshotTimes : RecordSuccess(d)
    \/ \E d \in SnapshotTimes, e \in SnapshotErrors : RecordFailure(d, e)
    \/ \E k \in ApiKeys : RecordApiRequest(k)

\* getMetrics calls between the calls that update the metrics
SpecSnapshot == Init /\ [][NextSnapshot]_vars


(* ========== LangChainOrchestrator called directly (SpecHistory) ======= *)
\* the userInput of the direct orchestrate calls
HistoryInputs == {"request"}
\* what the reasoning service answers them with
HistoryResponses == {"throw", "invalid", "text", "analyze_api_complexity"}

\* orchestrate(userInput, context) called by any client of the module.  Calls
\* overlap only between their awaits; addToHistory is synchronous, so each call
\* that gets that far pushes its two entries and truncates in one step, which is
\* the step modelled here.  reply.arg is the history's length before the call.
OrchestrateCall(u, resp, ok) ==
    LET o == orchestrate(resp, ok, agentIdCounter) IN
    /\ o.counter <= MaxAgents
    /\ agentIdCounter' = o.counter
    /\ issued' = Issue(issued, o.collab = "manifestGen", o.counter)
    /\ agents' = StoreAgent(agents, o.store)
    /\ last' = Invoked("none", "none", IF o.collab = "none" THEN "none" ELSE "tool",
                       o.collab, o.collabThrew)
    /\ reply' = Reply("orchestrate", Len(conversationHistory), o.threw, {})
    /\ conversationHistory' =
          IF o.threw THEN conversationHistory
          ELSE addToHistory(conversationHistory, u, formatResultForHistory(o.result))
    /\ sent' = buildMessages(conversationHistory, u)
    /\ UNCHANGED << awareness, diagnosis, runs, metrics, currentIntegrations, open, tools, pending, deleted,
                    snapshot, recorded >>

NextHistory ==
    \E u \in HistoryInputs, resp \in HistoryResponses, ok \in BOOLEAN :
        OrchestrateCall(u, resp, ok)

\* any sequence of orchestrate calls
SpecHistory == Init /\ [][NextHistory]_vars

(* ============ orchestrate and clearHistory (SpecClear) ================ *)
\* clearHistory(): this.conversationHistory = []
clearHistory(h) == << >>

ClearHistory ==
    /\ conversationHistory' = clearHistory(conversationHistory)
    /\ reply' = Reply("clearHistory", Len(conversationHistory), FALSE, {})
    /\ UNCHANGED << awareness, diagnosis, runs, metrics, currentIntegrations, agents, agentIdCounter, last,
                    open, tools, pending, issued, deleted, sent, snapshot, recorded >>

\* the answers of the reasoning service in SpecClear: a failure, guidance, a tool call
ClearResponses == {"throw", "text", "analyze_api_complexity"}

NextClear ==
    \/ \E u \in HistoryInputs, resp \in ClearResponses, ok \in BOOLEAN :
          OrchestrateCall(u, resp, ok)
    \/ ClearHistory

\* any sequence of orchestrate and clearHistory calls
SpecClear == Init /\ [][NextClear]_vars


(* ============== the Tool Registry called directly (SpecTools) ========= *)
\* this.tools.set(tool.name, tool)
registerTool(reg, name, desc) ==
    [n \in (DOMAIN reg) \cup {name} |-> IF n = name THEN desc ELSE reg[n]]

\* registerTool(tool): it has no check and no throw
RegisterTool(name, desc) ==
    /\ tools' = registerTool(tools, name, desc)
    /\ reply' = Reply("registerTool", 0, FALSE, {})
    /\ UNCHANGED << awareness, diagnosis, runs, metrics, currentIntegrations, conversationHistory, agents,
                    agentIdCounter, last, open, pending, issued, deleted,
                    sent, snapshot, recorded >>

NextTools ==
    \E name \in ToolNames, desc \in Descriptors : RegisterTool(name, desc)

\* any sequence of registerTool calls after the constructor registered the defaults
SpecTools == Init /\ [][NextTools]_vars


(* ========== the IntegrationAgent called directly (SpecRegistry) ======= *)
\* generateKubernetesManifests up to its first await: the id is drawn
GenerateBegin(g) ==
    LET n == NextAgentId(agentIdCounter) IN
    /\ pending[g] = 0
    /\ n <= MaxAgents
    /\ agentIdCounter' = n
    /\ issued' = Issue(issued, TRUE, n)
    /\ pending' = [pending EXCEPT ![g] = n]
    /\ reply' = NoReply
    /\ UNCHANGED << awareness, diagnosis, runs, metrics, currentIntegrations, conversationHistory, agents,
                    last, open, tools, deleted,
                    sent, snapshot, recorded >>

\* the rest of generateKubernetesManifests: the workflow and manifests are
\* generated (ok) and the record is stored under the id drawn, or one of the
\* generators throws and the error is rethrown
GenerateEnd(g, ok) ==
    /\ pending[g] # 0
    /\ agents' = IF ok THEN StoreAgent(agents, pending[g]) ELSE agents
    /\ pending' = [pending EXCEPT ![g] = 0]
    /\ reply' = Reply("generateKubernetesManifests", pending[g], ~ok, {})
    /\ UNCHANGED << awareness, diagnosis, runs, metrics, currentIntegrations, conversationHistory,
                    agentIdCounter, last, open, tools, issued, deleted,
                    sent, snapshot, recorded >>

\* deleteAgent(agentId)
DeleteAgent(id) ==
    LET d == deleteAgent(agents, id) IN
    /\ agents' = d.agents
    /\ deleted' = IF d.threw THEN deleted ELSE deleted \cup {id}
    /\ reply' = Reply("deleteAgent", id, d.threw, {})
    /\ UNCHANGED << awareness, diagnosis, runs, metrics, currentIntegrations, conversationHistory,
                    agentIdCounter, last, open, tools, pending, issued,
                    sent, snapshot, recorded >>

\* listAgents()
ListAgents ==
    /\ reply' = Reply("listAgents", 0, FALSE, {a.agentId : a \in listAgents(agents)})
    /\ UNCHANGED << awareness, diagnosis, runs, metrics, currentIntegrations, conversationHistory, agents,
                    agentIdCounter, last, open, tools, pending, issued, deleted,
                    sent, snapshot, recorded >>

NextRegistry ==
    \/ \E g \in Generations : GenerateBegin(g)
    \/ \E g \in Generations, ok \in BOOLEAN : GenerateEnd(g, ok)
    \/ \E id \in 1..MaxAgents : DeleteAgent(id)
    \/ ListAgents

\* concurrent generations, deletions and listings on one IntegrationAgent
SpecRegistry == Init /\ [][NextRegistry]_vars


(* ============ DebuggingAgent.diagnose called directly (SpecDiagnose) == *)
\* the state of the other components, which the two agents below never touch
coreVars == << runs, metrics, currentIntegrations, conversationHistory, agents,
               agentIdCounter, last, open, tools, pending, issued, deleted, reply,
               sent, snapshot, recorded >>

\* diagnose on an agent constructed without an llm
DiagnoseNoLLM(t) ==
    /\ diagnosis' = diagnose("none", NoAnalysis, t)
    /\ UNCHANGED << awareness, coreVars >>

\* diagnose on an agent constructed with an llm whose analyze call produces answer
DiagnoseLLM(answer, t) ==
    /\ diagnosis' = diagnose("configured", answer, t)
    /\ UNCHANGED << awareness, coreVars >>

NextDiagnose ==
    \/ \E t \in Telemetry : DiagnoseNoLLM(t)
    \/ \E answer \in LLMAnswers, t \in Telemetry : DiagnoseLLM(answer, t)

\* any sequence of diagnose calls, on agents with and without a language model
SpecDiagnose == Init /\ [][NextDiagnose]_vars

(* ====== the SelfAwarenessAgent singleton (SpecAwareness) ============== *)
\* new SelfAwarenessAgent(): initialized = false, config.autoSync from the
\* environment, then initialize() runs up to its first await
Construct(auto) ==
    /\ awareness.init = "none"
    /\ awareness' = [NotConstructed EXCEPT !.init = "detectOS", !.autoSync = auto]
    /\ UNCHANGED << diagnosis, coreVars >>

\* detectOSEnvironment(): the detection or the saving of its documentation may
\* fail; the error is logged and initialize goes on
OsOutcomes == {"ok", "detect", "save"}
DetectOS(outcome) ==
    /\ awareness.init = "detectOS"
    /\ awareness' = [awareness EXCEPT
                        !.init = "scan",
                        !.osEnvironment = IF outcome = "detect" THEN @ ELSE "detected"]
    /\ UNCHANGED << diagnosis, coreVars >>

\* await this.performFullSystemScan() in initialize
InitScan(ok) ==
    /\ awareness.init = "scan"
    /\ awareness' = [performFullSystemScan(awareness, ok) EXCEPT !.init = "dbsync"]
    /\ UNCHANGED << diagnosis, coreVars >>

\* await this.checkDatabaseSync() in initialize
InitCheckDb(outcome) ==
    /\ awareness.init = "dbsync"
    /\ awareness' = [checkDatabaseSync(awareness, outcome) EXCEPT !.init = "doc"]
    /\ UNCHANGED << diagnosis, coreVars >>

\* await this.updateSystemDocumentation() in initialize: it catches its own errors
InitUpdateDoc ==
    /\ awareness.init = "doc"
    /\ awareness' = [awareness EXCEPT !.init = "finish"]
    /\ UNCHANGED << diagnosis, coreVars >>

\* the rest of initialize.  With autoSync, startContinuousMonitoring starts the
\* timer and then calls this.watchCriticalFiles, which the class does not define:
\* the TypeError is caught by initialize's catch and the assignment below it is
\* skipped.  Without autoSync, this.initialized = true.
InitFinish ==
    /\ awareness.init = "finish"
    /\ awareness' = IF awareness.autoSync
                    THEN [awareness EXCEPT !.init = "ready", !.monitoring = TRUE]
                    ELSE [awareness EXCEPT !.init = "ready", !.initialized = TRUE]
    /\ UNCHANGED << diagnosis, coreVars >>

\* forceSynchronization() called on the exported singleton
ForceBegin ==
    /\ awareness.init # "none"
    /\ awareness.force = "idle"
    /\ awareness' = [awareness EXCEPT !.force = "scan"]
    /\ UNCHANGED << diagnosis, coreVars >>

ForceScan(ok) ==
    /\ awareness.force = "scan"
    /\ awareness' = [performFullSystemScan(awareness, ok) EXCEPT !.force = "dbsync"]
    /\ UNCHANGED << diagnosis, coreVars >>

ForceCheckDb(outcome) ==
    /\ awareness.force = "dbsync"
    /\ awareness' = [checkDatabaseSync(awareness, outcome) EXCEPT !.force = "doc"]
    /\ UNCHANGED << diagnosis, coreVars >>

\* updateSystemDocumentation, then return this.getSystemState()
ForceUpdateDoc ==
    /\ awareness.force = "doc"
    /\ awareness' = [awareness EXCEPT !.force = "idle"]
    /\ UNCHANGED << diagnosis, coreVars >>

\* the timer's checkForChanges: it rescans the files and checks the database
CheckForChanges(outcome) ==
    /\ awareness.monitoring
    /\ awareness' = checkDatabaseSync(awareness, outcome)
    /\ UNCHANGED << diagnosis, coreVars >>

NextAwareness ==
    \/ \E auto \in BOOLEAN : Construct(auto)
    \/ \E outcome \in OsOutcomes : DetectOS(outcome)
    \/ \E ok \in BOOLEAN : InitScan(ok)
    \/ \E outcome \in DbOutcomes : InitCheckDb(outcome)
    \/ InitUpdateDoc
    \/ InitFinish
    \/ ForceBegin
    \/ \E ok \in BOOLEAN : ForceScan(ok)
    \/ \E outcome \in DbOutcomes : ForceCheckDb(outcome)
    \/ ForceUpdateDoc
    \/ \E outcome \in DbOutcomes : CheckForChanges(outcome)

\* the singleton's construction, its initialize call, forceSynchronization calls
\* and the monitoring timer
SpecAwareness == Init /\ [][NextAwareness]_vars

(* =============================== claims =============================== *)
Finished(run) == run.pc \in {"done", "failed"}
InFlight(run) == run.pc \notin {"idle", "done", "failed"}

\* this step is run r's orchestrate call returning or throwing
IsOrchestrateStep(r) == runs[r].pc \in OrchestratePcs /\ runs'[r].pc # runs[r].pc
\* this step is run r's  result || await collaborator  after an orchestrate call
IsFallbackStep(r) == runs[r].pc \in FallbackPcs /\ runs'[r].pc # runs[r].pc

\* the tool registered for a stage
StageTool(stage) ==
    CASE stage = "parse"     -> "parse_openapi_spec"
      [] stage = "models"    -> "generate_pydantic_models"
      [] stage = "manifests" -> "generate_kubernetes_manifests"
      [] stage = "deploy"    -> "deploy_via_gitops"
      [] OTHER               -> "none"

\* the local a stage assigns
Output(run, stage) ==
    CASE stage = "parse"     -> run.openAPISpec
      [] stage = "models"    -> run.pydanticModels
      [] stage = "manifests" -> run.kubernetesManifests
      [] stage = "deploy"    -> run.deploymentResult

\* the collaborator each tool is expected to reach
ExpectedCollaborator(tool) ==
    CASE tool = "parse_openapi_spec"            -> "parser"
      [] tool = "generate_pydantic_models"      -> "generator"
      [] tool = "generate_kubernetes_manifests" -> "manifestGen"
      [] tool = "deploy_via_gitops"             -> "deployer"
      [] OTHER                                  -> "none"

\* C1: a run in which the reasoning service fails (rejects, or answers with an
\* invalid response) is never aborted by that failure: no call of
\* createIntegrationAgent throws the reasoning service's error.
C1_ReasoningFailureNeverAborts ==
    \A r \in Runs : runs[r].thrown \notin {"reasoning", "invalid"}

\* C2: whenever a stage collaborator raises an error, invoked directly or through
\* a tool, the run has failed at that stage with that error, one failure is
\* recorded and no success.
C2_CollaboratorErrorFailsRun ==
    last.threw =>
        /\ runs[last.run].pc = "failed"
        /\ runs[last.run].failedAt = last.stage
        /\ runs[last.run].thrown = last.collab
        /\ metrics.integrations.failed = 1
        /\ metrics.integrations.success = 0

\* C3: in every reachable state of the MetricsCollector, total = success + failed.
C3_TotalIsSuccessPlusFailed ==
    metrics.integrations.total =
        metrics.integrations.success + metrics.integrations.failed

C3_Witness ==
    /\ metrics.integrations.success >= 1
    /\ metrics.integrations.failed >= 1
    /\ metrics.integrations.total = MaxOps

\* C4: in_progress is never negative, and it is 0 once every run that called
\* startIntegration has recorded its success or failure.
C4_InProgressDrains ==
    /\ metrics.integrations.in_progress >= 0
    /\ open = 0 => metrics.integrations.in_progress = 0

C4_Witness ==
    /\ open = 0
    /\ metrics.integrations.total = 2
    /\ metrics.integrations.in_progress = 0
    /\ currentIntegrations # {}

\* C5: a call of createIntegrationAgent that reached startIntegration has called
\* neither recordSuccess nor recordFailure while it is in flight, and exactly one of
\* them, once, when it has returned (recordSuccess) or thrown (recordFailure); its
\* in_progress entry is taken back exactly then.
C5_ExactlyOneRecord ==
    \A r \in Callers :
        LET run == runs[r]
            i   == metrics.integrations
        IN  run.started =>
              /\ InFlight(run) =>
                    i.success = 0 /\ i.failed = 0 /\ i.in_progress = 1
              /\ run.pc = "done" =>
                    i.success = 1 /\ i.failed = 0 /\ i.in_progress = 0
              /\ run.pc = "failed" =>
                    i.success = 0 /\ i.failed = 1 /\ i.in_progress = 0

C5_Witness ==
    \E r \in Callers :
        /\ runs[r].pc = "failed"
        /\ runs[r].thrown = "deployer"
        /\ metrics.integrations.failed = 1
        /\ metrics.integrations.in_progress = 0

\* C6 (as stated): every error createIntegrationAgent raises was recorded by
\* recordFailure before it was raised.
C6_EveryErrorRecorded ==
    \A r \in Callers :
        runs[r].pc = "failed" => metrics.integrations.failed >= 1

\* C6 (amended): every error raised after startIntegration was called has been
\* recorded by one recordFailure call; the missing-openapi_url error is raised
\* before startIntegration and leaves the MetricsCollector untouched.
C6_ErrorRecordedOnceStarted ==
    \A r \in Callers :
        runs[r].pc = "failed" =>
            IF runs[r].thrown = "validation"
            THEN ~runs[r].started /\ metrics = InitialMetrics /\ currentIntegrations = {}
            ELSE /\ runs[r].started
                 /\ metrics.integrations.failed = 1
                 /\ metrics.errors = (ErrorTypeOf(runs[r].thrown) :> 1)

C6_Witness ==
    \E r \in Callers :
        /\ runs[r].pc = "failed"
        /\ runs[r].thrown = "parser"
        /\ metrics.integrations.failed = 1

C8_WrongToolFallsBack ==
    [][ \A r \in Runs :
          LET stage == StageOf(runs[r].pc) IN
          ( /\ IsFallbackStep(r)
            /\ runs[r].orch.type = "tool_execution"
            /\ runs[r].orch.tool # StageTool(stage) ) =>
              /\ last'.via = "direct"
              /\ last'.collab = StageCollaborator(stage)
              /\ runs'[r].pc # "failed" =>
                    Output(runs'[r], stage) = DirectValue(stage, agentIdCounter') ]_vars

\* C9: at each reasoning-mediated stage, when orchestrate returned guidance (free
\* text) instead of a tool call, the coordinator invokes the stage's collaborator
\* directly, once, and the stage's output is that collaborator's output (or the
\* run fails with the collaborator's error).
C9_GuidanceFallsBack ==
    [][ \A r \in Runs :
          LET stage == StageOf(runs[r].pc) IN
          ( /\ IsFallbackStep(r)
            /\ runs[r].orch.type = "reasoning" ) =>
              /\ last' = Invoked(r, stage, "direct", StageCollaborator(stage),
                                 runs'[r].pc = "failed")
              /\ runs'[r].pc # "failed" =>
                    Output(runs'[r], stage) = DirectValue(stage, agentIdCounter')
              /\ runs'[r].pc = "failed" =>
                    runs'[r].thrown = StageCollaborator(stage) ]_vars

\* the deploy stage answered with guidance, the deployer was called directly and
\* the run returned its result
C9_Witness ==
    \E r \in Callers :
        /\ runs[r].pc = "done"
        /\ last = Invoked(r, "deploy", "direct", "deployer", FALSE)
        /\ runs[r].deploymentResult = Val("deploy", 0)
        /\ runs[r].pydanticModels = Val("models", 0)

Earlier(c) ==
    CASE c = "parser"      -> {}
      [] c = "generator"   -> {"parser"}
      [] c = "manifestGen" -> {"parser", "generator"}
      [] c = "validator"   -> {"parser", "generator", "manifestGen"}
      [] c = "deployer"    -> {"parser", "generator", "manifestGen", "validator"}
      [] OTHER             -> {}

\* C11: within one run each stage's collaborator is invoked at most once, counting
\* tool-path and direct invocations and those made during the planning call: no
\* step invokes a collaborator the run has already invoked.
C11_CollaboratorAtMostOnce ==
    [][ \A r \in Runs :
          (last'.run = r /\ last'.collab # "none") =>
              last'.collab \notin runs[r].invoked ]_vars

\* C12: within one run collaborators are invoked in the order parse,
\* generate-models, generate-manifests, validate, deploy: when a collaborator is
\* invoked, the collaborator of every earlier stage has been invoked and has
\* completed.
C12_StrictStageOrder ==
    last.collab # "none" =>
        Earlier(last.collab) \subseteq runs[last.run].invoked

\* C13: in a run whose options carry no git_repo the GitOps deployer is never
\* invoked and deploymentResult stays null.
C13_NoTargetNoDeploy ==
    \A r \in Runs :
        (runs[r].started /\ ~runs[r].git_repo) =>
            /\ "deployer" \notin runs[r].invoked
            /\ runs[r].deploymentResult = None

\* C14: a validation check that did not pass does not fail the run: when
\* validateManifests reported a failed check and no file system error, the run goes
\* on to the deploy stage if git_repo is set and otherwise returns with a recorded
\* success; a run fails at the validate step only with a file system error.
C14_FailedCheckNotFatal ==
    [][ \A r \in Runs :
          ( /\ runs[r].pc = "validate"
            /\ runs'[r].pc # "validate"
            /\ runs'[r].validation = "failed" ) =>
              /\ runs'[r].pc = "failed" =>
                    runs'[r].thrown = "validator" /\ last'.threw
              /\ runs'[r].pc # "failed" =>
                    /\ runs'[r].pc = IF runs[r].git_repo THEN "deploy_o" ELSE "done"
                    /\ runs'[r].pc = "done" =>
                          metrics'.integrations.success =
                              metrics.integrations.success + 1 ]_vars

\* a run whose validation reported a failed check, deployed and returned
C14_Witness ==
    \E r \in Callers :
        /\ runs[r].pc = "done"
        /\ runs[r].git_repo
        /\ runs[r].validation = "failed"
        /\ "deployer" \in runs[r].invoked
        /\ runs[r].deploymentResult.kind \in {"deploy", "tr_deploy"}
        /\ metrics.integrations.success = 1

\* C20: the Deployment Record of a run's agent has status validated once the run's
\* Validate stage completed and deployed once its Deploy stage completed: a run that
\* returned leaves its record at validated (no git_repo) or deployed (git_repo).
C20_StatusAdvances ==
    \A r \in Runs :
        LET m == runs[r].kubernetesManifests IN
        (runs[r].pc = "done" /\ m.kind = "manifests" /\ m.id \in DOMAIN agents) =>
            agents[m.id].status = IF runs[r].git_repo THEN "deployed" ELSE "validated"

\* C15: after any number of orchestrate calls, returning or failing, the
\* conversation history holds at most 20 entries.
C15_HistoryAtMostLimit ==
    Len(conversationHistory) <= HistoryLimit

\* a call failed on a history that earlier calls had filled
C15_Witness ==
    /\ reply.op = "orchestrate"
    /\ reply.threw
    /\ reply.arg = HistoryLimit
    /\ Len(conversationHistory) = HistoryLimit

\* the call pushed one user entry and one assistant entry behind the old entries
\* and the oldest entries beyond the limit were dropped
AppendedAndTruncated ==
    LET h    == conversationHistory
        h2   == conversationHistory'
        kept == Len(h2) - 2
    IN  /\ Len(h2) = Min(Len(h) + 2, HistoryLimit)
        /\ h2[Len(h2) - 1].role = "user"
        /\ h2[Len(h2) - 1].content \in HistoryInputs
        /\ h2[Len(h2)].role = "assistant"
        /\ \A i \in 1..kept : h2[i] = h[i + (Len(h) - kept)]

\* C16 (as stated): every orchestrate call, whatever its outcome, appends one user
\* entry followed by one assistant entry and truncates the history to its most
\* recent 20 entries.
C16_EveryCallAppends ==
    [][ reply'.op = "orchestrate" => AppendedAndTruncated ]_vars

\* C16 (amended): an orchestrate call that returns appends one user entry followed
\* by one assistant entry and truncates the history to its most recent 20 entries,
\* oldest dropped first; a call that throws leaves the history as it was.
C16_ReturningCallAppends ==
    [][ reply'.op = "orchestrate" =>
          IF reply'.threw
          THEN conversationHistory' = conversationHistory
          ELSE AppendedAndTruncated ]_vars

\* a call returned on a full history: its two entries are last, a tool summary
\* of an earlier call is still the second entry
C16_Witness ==
    /\ reply.op = "orchestrate"
    /\ ~reply.threw
    /\ reply.arg = HistoryLimit
    /\ Len(conversationHistory) = HistoryLimit
    /\ conversationHistory[HistoryLimit].content = << "content" >>
    /\ conversationHistory[2].content # << "content" >>

\* C17: registering a tool under a name that is already registered fails with a
\* duplicate-tool error and the registry keeps the descriptor registered first:
\* no registerTool call changes the descriptor of a registered name, and a call
\* that adds no name has thrown.
C17_DuplicateToolRejected ==
    [][ reply'.op = "registerTool" =>
          /\ \A n \in DOMAIN tools : tools'[n] = tools[n]
          /\ DOMAIN tools' = DOMAIN tools => reply'.threw ]_vars

\* C18: deleteAgent on an id with no record fails with not-found and leaves the
\* registry unchanged; on an existing id it removes exactly that record; listAgents
\* returns exactly the records in the registry, so a deleted record is not listed
\* and a second deleteAgent of its id fails.
C18_DeleteAgentExact ==
    [][ /\ reply'.op = "deleteAgent" =>
              LET id == reply'.arg IN
              IF id \notin DOMAIN agents
              THEN reply'.threw /\ agents' = agents
              ELSE /\ ~reply'.threw
                   /\ DOMAIN agents' = (DOMAIN agents) \ {id}
                   /\ \A k \in DOMAIN agents' : agents'[k] = agents[k]
        /\ reply'.op = "listAgents" =>
              /\ reply'.listed = DOMAIN agents
              /\ reply'.listed \cap deleted = {} ]_vars

\* the second deleteAgent of an id failed, another record is still there
C18_Witness ==
    /\ reply.op = "deleteAgent"
    /\ reply.threw
    /\ reply.arg \in deleted
    /\ agents # EmptyMap

\* C19: the agent ids drawn by generateKubernetesManifests are strictly increasing
\* in the order drawn, so pairwise distinct, whatever the interleaving of
\* concurrent generations, failed generations and deletions; an id whose record
\* was deleted is never drawn or stored again.
C19_IdsNeverReused ==
    /\ \A i \in 1..Len(issued) : \A j \in 1..Len(issued) :
           i < j => issued[i] < issued[j]
    /\ \A g \in Generations : \A h \in Generations :
           (g # h /\ pending[g] # 0) => pending[g] # pending[h]
    /\ \A id \in deleted :
           /\ id \notin DOMAIN agents
           /\ \A g \in Generations : pending[g] # id

\* an id was deleted, a generation failed, and a later generation is in flight
\* with the newest id
C19_Witness ==
    /\ Len(issued) = MaxAgents
    /\ 1 \in deleted
    /\ DOMAIN agents = {}
    /\ \E g \in Generations : pending[g] = MaxAgents

\* C26: when a run is aborted by a stage failure, what the caller receives names
\* the failing stage and its cause and carries the results of the stages that
\* completed before it.
C26_AbortPreservesResults ==
    \A r \in Runs :
        (runs[r].pc = "failed" /\ runs[r].started) =>
            /\ runs[r].outcome.error = runs[r].thrown
            /\ runs[r].outcome.stage = runs[r].failedAt
            /\ runs[r].outcome.openAPISpec = runs[r].openAPISpec
            /\ runs[r].outcome.pydanticModels = runs[r].pydanticModels
            /\ runs[r].outcome.kubernetesManifests = runs[r].kubernetesManifests

\* C27: no run adds two records to the agent registry, and a run that returned
\* has added exactly one.
C27_OneRecordPerRun ==
    \A r \in Runs :
        /\ Cardinality(runs[r].stored) <= 1
        /\ runs[r].pc = "done" => Cardinality(runs[r].stored) = 1

\* C28: validateManifests never throws, whatever its file operations and the
\* three checks do, so no run is aborted at the Validate stage.
C28_ValidateNeverThrows ==
    last.collab = "validator" =>
        /\ ~last.threw
        /\ runs[last.run].pc # "failed"

\* C24: what is read from the object getMetrics returned stays what it was when
\* getMetrics returned, whatever startIntegration, recordSuccess, recordFailure or
\* recordApiRequest calls follow.
C24_SnapshotImmutable ==
    snapshot.returned => snapshot.seen = snapshot.taken

\* C25: a reset step leaves total, success, failed and in_progress at 0, the
\* duration accumulators at their initial values, the error and endpoint maps
\* empty and the in-flight set empty, whatever the state before.
C25_ResetZeroesAll ==
    [][ reply'.op = "reset" =>
          /\ metrics'.integrations =
                [total |-> 0, success |-> 0, failed |-> 0, in_progress |-> 0]
          /\ metrics'.performance.total_duration = 0
          /\ metrics'.performance.avg_duration = [num |-> 0, den |-> 1]
          /\ metrics'.performance.min_duration = Infinity
          /\ metrics'.performance.max_duration = 0
          /\ DOMAIN metrics'.errors = {}
          /\ DOMAIN metrics'.api_calls = {}
          /\ currentIntegrations' = {} ]_vars

\* reset was called while two started runs had not recorded their outcome
C25_Witness ==
    /\ reply.op = "reset"
    /\ open >= 2
    /\ metrics.integrations.in_progress = 0
    /\ currentIntegrations = {}

\* the sum, the smallest and the largest of the durations in a multiset
RECURSIVE SumOf(_)
SumOf(b) ==
    IF DOMAIN b = {} THEN 0
    ELSE LET k == CHOOSE x \in DOMAIN b : TRUE
         IN  k * b[k] + SumOf([x \in (DOMAIN b) \ {k} |-> b[x]])
RECURSIVE CountOf(_)
CountOf(b) ==
    IF DOMAIN b = {} THEN 0
    ELSE LET k == CHOOSE x \in DOMAIN b : TRUE
         IN  b[k] + CountOf([x \in (DOMAIN b) \ {k} |-> b[x]])
Smallest(b) == CHOOSE x \in DOMAIN b : \A y \in DOMAIN b : x <= y
Largest(b)  == CHOOSE x \in DOMAIN b : \A y \in DOMAIN b : x >= y

\* C30: after n >= 1 recordSuccess / recordFailure calls since construction or the
\* last reset, total_duration is the sum of their durations, min_duration the
\* smallest, max_duration the largest, and avg_duration is total_duration divided
\* by integrations.total, which is n.
C30_DurationAggregates ==
    CountOf(recorded) >= 1 =>
        /\ metrics.integrations.total = CountOf(recorded)
        /\ metrics.performance.total_duration = SumOf(recorded)
        /\ metrics.performance.min_duration = Smallest(recorded)
        /\ metrics.performance.max_duration = Largest(recorded)
        /\ metrics.performance.avg_duration =
              [num |-> SumOf(recorded), den |-> CountOf(recorded)]

\* three runs recorded after a reset, successes and a failure, different durations
C30_Witness ==
    /\ CountOf(recorded) = MaxOps
    /\ Cardinality(DOMAIN recorded) >= 2
    /\ metrics.integrations.success >= 1
    /\ metrics.integrations.failed >= 1
    /\ metrics.performance.min_duration < metrics.performance.max_duration

\* C29: the request buildMessages builds for an orchestrate call is the system
\* prompt, then the most recent min(6, n) entries of the n-entry history in their
\* order, then the new user message; older entries are not sent.
C29_RequestShape ==
    [][ reply'.op = "orchestrate" =>
          LET h == conversationHistory
              m == sent'
              k == Min(HistoryWindow, Len(h))
          IN  /\ Len(m) = k + 2
              /\ m[1].role = "system"
              /\ m[Len(m)].role = "user"
              /\ m[Len(m)].content \in HistoryInputs
              /\ \A i \in 1..k : m[i + 1] = h[Len(h) - k + i] ]_vars

\* a request built on a full history: 6 of its 20 entries were sent
C29_Witness ==
    /\ reply.op = "orchestrate"
    /\ reply.arg = HistoryLimit
    /\ Len(sent) = HistoryWindow + 2
    /\ sent[2].role = "user"
    /\ sent[2].content \in HistoryInputs
    /\ sent[HistoryWindow + 1].role = "assistant"

\* C22: the history entries in a request built for one run were all produced by
\* that run: none was appended by another run of the same module.
C22_RequestHistoryOwnRun ==
    Len(sent) >= 2 =>
        \A i \in 2..(Len(sent) - 1) :
            sent[i].content[1] = sent[Len(sent)].content[1]

\* C23: for every interleaving of the concurrent runs, success counts the runs that
\* returned, failed the started runs that threw, total their sum and in_progress
\* the started runs still in flight; once all N started runs have finished,
\* total = N.
C23_NoLostIncrement ==
    LET started == {r \in Runs : runs[r].started}
        done    == {r \in started : runs[r].pc = "done"}
        failed  == {r \in started : runs[r].pc = "failed"}
    IN  /\ metrics.integrations.success = Cardinality(done)
        /\ metrics.integrations.failed = Cardinality(failed)
        /\ metrics.integrations.total = Cardinality(done) + Cardinality(failed)
        /\ metrics.integrations.in_progress =
              Cardinality(started) - Cardinality(done) - Cardinality(failed)
        /\ (\A r \in started : Finished(runs[r])) =>
              metrics.integrations.total = Cardinality(started)

\* both runs overlapped and both returned
C23_Witness ==
    /\ \A r \in Runs : runs[r].pc = "done"
    /\ metrics.integrations.total = Cardinality(Runs)
    /\ metrics.integrations.success = Cardinality(Runs)
    /\ \E i, j, k \in 1..Len(conversationHistory) :
          /\ i < j /\ j < k
          /\ conversationHistory[i].content[1] = "r1"
          /\ conversationHistory[j].content[1] = "r2"
          /\ conversationHistory[k].content[1] = "r1"

\* C21: a run whose reasoning call is never answered does not hang: it eventually
\* terminates with success or failure.
C21_StalledRunTerminates ==
    \A r \in Callers : (runs[r].pc = "stalled") ~> Finished(runs[r])

\* C31: after every step of the MetricsCollector the counts of the error-type map
\* add up to integrations.failed; a recordFailure step adds one to exactly one
\* entry, a reset step empties the map, and every other step leaves it as it was.
C31_ErrorCountsMatchFailed ==
    [][ /\ CountOf(metrics'.errors) = metrics'.integrations.failed
        /\ reply'.op = "recordFailure" =>
              \E e \in ErrorTypes : metrics'.errors = Bump(metrics.errors, e)
        /\ reply'.op = "reset" => metrics'.errors = EmptyMap
        /\ reply'.op \notin {"recordFailure", "reset"} =>
              metrics'.errors = metrics.errors ]_vars

\* failures of two error types, one of them recorded twice
C31_Witness ==
    /\ reply.op = "recordFailure"
    /\ metrics.integrations.failed = 3
    /\ Cardinality(DOMAIN metrics.errors) = 2

\* C32: in every state reached through interleaved createIntegrationAgent calls
\* (reset is never called), success + failed + in_progress equals the number of
\* startIntegration calls made so far.
C32_StartedAccountedFor ==
    metrics.integrations.success + metrics.integrations.failed
        + metrics.integrations.in_progress
      = Cardinality({r \in Runs : runs[r].started})

\* two runs were started; one has thrown and the other is still in flight
C32_Witness ==
    /\ \A r \in Runs : runs[r].started
    /\ \E r \in Runs : runs[r].pc = "failed"
    /\ \E r \in Runs : InFlight(runs[r]) /\ runs[r].pc # "plan"
    /\ metrics.integrations.failed = 1
    /\ metrics.integrations.in_progress = 1

\* C33: currentIntegrations holds exactly the started runs that have recorded
\* neither success nor failure: its size is integrations.in_progress, and it is
\* empty once every started run has completed.
C33_InFlightSetExact ==
    /\ Cardinality(currentIntegrations) = metrics.integrations.in_progress
    /\ (\A r \in Runs : runs[r].started => Finished(runs[r])) =>
          currentIntegrations = {}

\* C34: after every step the conversation history has even length and alternates
\* user, assistant, user, assistant, ... from its first entry, truncation to 20
\* entries included; a clearHistory step leaves it empty.
C34_HistoryAlternates ==
    [][ /\ Len(conversationHistory') % 2 = 0
        /\ \A i \in 1..Len(conversationHistory') :
              conversationHistory'[i].role =
                  IF i % 2 = 1 THEN "user" ELSE "assistant"
        /\ reply'.op = "clearHistory" => conversationHistory' = << >> ]_vars

\* an orchestrate call appended to a full history, which was cut back to 20 entries
C34_Witness ==
    /\ reply.op = "orchestrate"
    /\ ~reply.threw
    /\ reply.arg = HistoryLimit
    /\ Len(conversationHistory) = HistoryLimit

\* the names getToolFunctions advertises: one function per registered tool
getToolFunctions(reg) == DOMAIN reg

\* executeTool reaches the default case of its switch for this name: it returns
\* the failure record although the tool's body would not throw
TakesUnknownBranch(name) ==
    executeTool(name, TRUE, agentIdCounter).result = Val("tr_error", 0)

\* C35: after any sequence of registerTool calls no advertised tool name makes
\* executeTool take the unknown-tool branch.
C35_RegisteredToolsDispatch ==
    \A name \in getToolFunctions(tools) : ~TakesUnknownBranch(name)

\* C36: no step of the agent registry decreases agentIdCounter; after every step
\* each stored key k is the id of its record with 1 <= k <= agentIdCounter, and
\* there are at most agentIdCounter records; a generation that fails after it
\* drew its id leaves the registry as it was and the id stays consumed.
C36_RegistryWithinCounter ==
    [][ /\ agentIdCounter' >= agentIdCounter
        /\ \A k \in DOMAIN agents' :
              /\ 1 <= k /\ k <= agentIdCounter'
              /\ agents'[k].agentId = k
        /\ Cardinality(DOMAIN agents') <= agentIdCounter'
        /\ (reply'.op = "generateKubernetesManifests" /\ reply'.threw) =>
              /\ agents' = agents
              /\ reply'.arg \notin DOMAIN agents'
              /\ reply'.arg <= agentIdCounter'
              /\ \E i \in 1..Len(issued') : issued'[i] = reply'.arg ]_vars

\* a generation failed after it drew id 2 while the records of ids 1 and 3 are stored
C36_Witness ==
    /\ reply.op = "generateKubernetesManifests"
    /\ reply.threw
    /\ reply.arg = 2
    /\ DOMAIN agents = {1, 3}
    /\ agentIdCounter = MaxAgents

\* C37: a run that failed at the validate or the deploy stage had its manifests
\* generated, and every record it stored is still in the registry, listed by
\* listAgents under its own id: the failure rolled nothing back.
C37_FailedRunKeepsRecord ==
    \A r \in Callers :
        (runs[r].pc = "failed" /\ runs[r].failedAt \in {"validate", "deploy"}) =>
            /\ runs[r].stored # {}
            /\ \A id \in runs[r].stored :
                  /\ id \in DOMAIN agents
                  /\ agents[id].agentId = id
                  /\ agents[id] \in listAgents(agents)

\* the run failed in validateManifests after its manifests were generated
C37_Witness ==
    \E r \in Callers :
        /\ runs[r].pc = "failed"
        /\ runs[r].failedAt = "validate"
        /\ runs[r].stored # {}
        /\ runs[r].stored \subseteq DOMAIN agents

C39_LLMFailureFallsBack ==
    (diagnosis.called /\ (diagnosis.llm = "none" \/ diagnosis.answer = LLMRejects)) =>
        /\ ~diagnosis.analysisThrew
        /\ diagnosis.analysis = performBasicAnalysis(diagnosis.context)
        /\ diagnosis.analysis.source = "basic"
        /\ diagnosis.analysis.impact = assessImpact(diagnosis.context.telemetryData)
        /\ Len(diagnosis.analysis.rootCause) = Len(diagnosis.context.knownIssues)
        /\ ~diagnosis.threw
        /\ diagnosis.status = determineSeverity(diagnosis.analysis)
        /\ diagnosis.status \in {"critical", "warning", "info"}

\* llm.analyze threw on telemetry with a high error rate, many logs and a known
\* pattern in the logs
C39_Witness ==
    /\ diagnosis.called
    /\ diagnosis.llm = "configured"
    /\ diagnosis.answer = LLMRejects
    /\ Len(diagnosis.context.knownIssues) = 3
    /\ diagnosis.analysis.correlations # << >>
    /\ diagnosis.status = "critical"

====
